---- MODULE Spec2Model ----
(***************************************************************************)
(* The compilation orchestration layer of src/lib/template/language/       *)
(* compile.ts: describeExpectedInput, compileScriptContents,               *)
(* compileScriptRaw, compileScriptP2shLocking, compileScriptP2shUnlocking  *)
(* and compileScript.                                                      *)
(*                                                                         *)
(* The three pure functions are operators.  A JavaScript object is a TLA+  *)
(* record or function; a field that is `undefined` is a field that is not  *)
(* in the DOMAIN, so `x.f !== undefined` reads "f" \in DOMAIN x.  A string *)
(* built by a template literal is the sequence of its pieces.              *)
(*                                                                         *)
(* parseScript, createIdentifierResolver, resolveScriptSegment,            *)
(* getResolutionErrors, reduceScript and createCompilerCommonSynchronous   *)
(* are imported by compile.ts from files outside src/.  They are modelled  *)
(* by their interface: what they answer for a script text is carried by    *)
(* the text itself (whether it parses, which scripts it references, how    *)
(* many identifiers stay unresolved, what reduction reports).              *)
(***************************************************************************)
EXTENDS Integers, Sequences, FiniteSets, TLC

VARIABLES pc, callScriptId, callData, scripts, lockingScriptTypes, unlockingScripts,
          unlockingScriptTimeLockTypes, p2shOutcome, rawResult,
          lockingBytecodeResult, transformedResult, result

vars == <<pc, callScriptId, callData, scripts, lockingScriptTypes, unlockingScripts,
          unlockingScriptTimeLockTypes, p2shOutcome, rawResult,
          lockingBytecodeResult, transformedResult, result>>

(***************************************************************************)
(* Bounds of the model.                                                    *)
(***************************************************************************)
\* The longest list of script identifiers one script text references.
MaxRefs == 2
\* The deepest nesting of compileScriptRaw calls the resolver is followed to;
\* beyond it the nested result is the marker DepthExceeded.
MaxDepth == 4
\* The script identifiers a Script Source Table may hold.
ScriptIds == {"a", "b"}
\* The bytecode a successful reduction of a user script's own operations gives.
Codes == {<<1>>, <<2, 3>>}
\* The locktime values supplied in data.operationData.
LockTimes == {0, 499999999, 500000000, 500000001}

(***************************************************************************)
(* Script texts.  A text stands for a source string, described by what the *)
(* collaborators do with it.                                               *)
(*   kind       "user", or the synthetic template it is                    *)
(*   parses     parseScript's status                                       *)
(*   refs       the script identifiers it references, in source order      *)
(*   unresolved the number of identifiers the resolver cannot resolve      *)
(*   reduce     what reduceScript reports: "bytecode", "errors" (a         *)
(*              non-empty errors list) or "empty" (errors present, empty)  *)
(*   code       the bytecode of its own operations                         *)
(***************************************************************************)
RefLists == UNION {[1..n -> ScriptIds] : n \in 0..MaxRefs}

Text(kind, parses, refs, unresolved, reduce, code) ==
    [kind |-> kind, parses |-> parses, refs |-> refs,
     unresolved |-> unresolved, reduce |-> reduce, code |-> code]

ScriptTexts ==
    {Text("user", FALSE, <<>>, 0, "bytecode", <<1>>)}
    \cup {Text("user", TRUE, r, 1, "bytecode", <<1>>) : r \in RefLists}
    \cup {Text("user", TRUE, r, 0, x, <<1>>) :
            r \in RefLists, x \in {"errors", "empty"}}
    \cup {Text("user", TRUE, r, 0, "bytecode", c) : r \in RefLists, c \in Codes}

\* What the collaborators answer for a synthetic P2SH template.
P2shOutcomes == {"bytecode", "parse", "resolve", "errors", "empty"}

\* The synthetic template `kind` as the collaborators treat it under `outcome`.
TemplateText(kind, outcome) ==
    Text(kind, outcome # "parse", <<>>,
         IF outcome = "resolve" THEN 1 ELSE 0,
         IF outcome \in {"errors", "empty"} THEN outcome ELSE "bytecode",
         <<>>)

(***************************************************************************)
(* Small helpers on sequences.                                             *)
(***************************************************************************)
RECURSIVE Flatten(_)
Flatten(ss) == IF ss = <<>> THEN <<>> ELSE Head(ss) \o Flatten(Tail(ss))

RECURSIVE Sum(_)
Sum(s) == IF s = <<>> THEN 0 ELSE Head(s) + Sum(Tail(s))

\* Array.prototype.join: the elements with `sep` between neighbours.
RECURSIVE Join(_, _)
Join(s, sep) ==
    IF Len(s) = 0 THEN <<>>
    ELSE IF Len(s) = 1 THEN <<s[1]>>
    ELSE <<s[1], sep>> \o Join(Tail(s), sep)

\* Array.prototype.includes.
Includes(s, x) == \E i \in 1..Len(s) : s[i] = x

\* Array.prototype.filter with the predicate (value) => value !== x.
RECURSIVE FilterOut(_, _)
FilterOut(s, x) ==
    IF s = <<>> THEN <<>>
    ELSE (IF Head(s) = x THEN <<>> ELSE <<Head(s)>>) \o FilterOut(Tail(s), x)

\* The object spread { ...object, field: value }.
With(object, field, value) ==
    [f \in DOMAIN object \cup {field} |->
        IF f = field THEN value ELSE object[f]]

(***************************************************************************)
(* describeExpectedInput: the sentence naming the expected inputs, with    *)
(* the EOF expectation moved to the end.                                   *)
(***************************************************************************)
describeExpectedInput(expectedArray) ==
    LET EOF == "EOF"
        filtered == FilterOut(expectedArray, EOF)
        newArray == IF Len(filtered) # Len(expectedArray)
                    THEN Append(filtered, "the end of the script")
                    ELSE filtered
        withoutLastElement == SubSeq(newArray, 1, Len(newArray) - 1)
        lastElement == IF Len(newArray) = 0 THEN "undefined"
                       ELSE newArray[Len(newArray)]
    IN  <<"Encountered unexpected input while parsing script. Expected">>
        \o (IF Len(newArray) >= 3
            THEN Join(withoutLastElement, ", ") \o <<", or", lastElement>>
            ELSE IF Len(newArray) = 2
            THEN Join(newArray, " or ")
            ELSE <<lastElement>>)
        \o <<".">>

emptyRange ==
    [endColumn |-> 0, endLineNumber |-> 0,
     startColumn |-> 0, startLineNumber |-> 0]

(***************************************************************************)
(* The collaborators, by their interface.                                  *)
(***************************************************************************)
\* parse(scriptText) -> {status: true, value} | {status: false, expected, index}
parseScript(script) ==
    IF script.parses
    THEN [status |-> TRUE, value |-> script]
    ELSE [status |-> FALSE, expected |-> <<"EOF", "an opcode">>,
          index |-> [line |-> 1, column |-> 2]]

\* The resolver closes over the data and the environment it was made from.
createIdentifierResolver(args) ==
    [data |-> args.data, environment |-> args.environment]

\* The variables a synthetic template names.
TemplateVariables(kind) ==
    CASE kind = "p2shLocking" -> <<"lockingBytecode">>
      [] kind = "p2shUnlocking" -> <<"unlockingBytecode", "lockingBytecode">>
      [] OTHER -> <<>>

\* The location of the i-th identifier of a script text.
NodeRange(i) ==
    [endColumn |-> i + 1, endLineNumber |-> 1,
     startColumn |-> i, startLineNumber |-> 1]

\* The result standing for a nested compilation the model does not follow.
DepthExceeded ==
    [errorType |-> "depth", errors |-> <<>>, success |-> FALSE]

RECURSIVE compileScriptRaw(_, _, _)
RECURSIVE compileScriptContents(_, _, _)

\* resolve(tree, Resolver) -> ResolvedTree.  A referenced script is compiled
\* through compileScriptRaw with the resolver's environment, so with the
\* ancestry chain of the script being resolved; a variable is read from
\* data.bytecode; an identifier that is neither is an error node.  The tree
\* records the ancestry chain of the environment it was resolved in.
\* `nesting` counts the resolver calls above this one (a field of the model,
\* not of the program).
resolveScriptSegment(segment, resolver) ==
    LET environment == resolver.environment
        inner == With(environment, "nesting", environment.nesting + 1)
        scriptNode(i) ==
            [type |-> "script", value |-> segment.refs[i], range |-> NodeRange(i),
             result |-> IF environment.nesting >= MaxDepth
                        THEN DepthExceeded
                        ELSE compileScriptRaw(resolver.data, inner,
                                              segment.refs[i])]
        variables == TemplateVariables(segment.kind)
        variableNode(i) ==
            IF "bytecode" \in DOMAIN resolver.data
               /\ variables[i] \in DOMAIN resolver.data.bytecode
            THEN [type |-> "bytecode", name |-> variables[i],
                  value |-> resolver.data.bytecode[variables[i]]]
            ELSE [type |-> "error", value |-> <<"Unknown identifier", variables[i]>>,
                  range |-> NodeRange(i)]
        errorNode(i) ==
            [type |-> "error", value |-> <<"Unknown identifier", "unknown">>,
             range |-> NodeRange(Len(segment.refs) + Len(variables) + i)]
    IN  [script |-> segment,
         sourceScriptIds |-> environment.sourceScriptIds,
         nodes |-> [i \in 1..Len(segment.refs) |-> scriptNode(i)]
                   \o [i \in 1..Len(variables) |-> variableNode(i)]
                   \o [i \in 1..segment.unresolved |-> errorNode(i)]]

\* The error of one resolved node: none, its own, or that of the script it
\* references (whose messages it quotes).
NodeErrors(node) ==
    CASE node.type = "error" -> <<[error |-> node.value, range |-> node.range]>>
      [] node.type = "script" /\ ~node.result.success ->
            <<[error |-> <<"Compilation error in resolved script", node.value, ":">>
                         \o Flatten([i \in 1..Len(node.result.errors) |->
                                        node.result.errors[i].error]),
               range |-> node.range]>>
      [] OTHER -> <<>>

\* collectResolutionErrors(ResolvedTree) -> Error[]: flat, in source order.
getResolutionErrors(resolvedScript) ==
    Flatten([i \in 1..Len(resolvedScript.nodes) |->
                NodeErrors(resolvedScript.nodes[i])])

\* A data push of b: its length, then its bytes.
PushData(b) == <<Len(b)>> \o b

\* The virtual machine's OP_HASH160 of b, from the collaborating vm: a
\* digest that depends on the length and the bytes of b.
Hash160(b) == <<(Len(b) * 7 + Sum(b)) % 256, Len(b)>>

VariableValue(resolvedScript, name) ==
    LET node == CHOOSE n \in {resolvedScript.nodes[i] :
                                 i \in 1..Len(resolvedScript.nodes)} :
                    n.type = "bytecode" /\ n.name = name
    IN  node.value

\* The bytecode a successful reduction folds the resolved tree into: a user
\* script's own operations followed by the bytecode of the scripts it
\* references; for the templates, `unlockingBytecode <lockingBytecode>` and
\* `OP_HASH160 <$(<lockingBytecode> OP_HASH160)> OP_EQUAL`.
ReducedBytecode(resolvedScript) ==
    LET kind == resolvedScript.script.kind
        nodes == resolvedScript.nodes
    IN  CASE kind = "p2shUnlocking" ->
                VariableValue(resolvedScript, "unlockingBytecode")
                \o PushData(VariableValue(resolvedScript, "lockingBytecode"))
          [] kind = "p2shLocking" ->
                <<169>>
                \o PushData(Hash160(VariableValue(resolvedScript, "lockingBytecode")))
                \o <<135>>
          [] OTHER ->
                resolvedScript.script.code
                \o Flatten([i \in 1..Len(nodes) |->
                              IF nodes[i].type = "script"
                              THEN nodes[i].result.bytecode ELSE <<>>])

\* reduce(ResolvedTree, vm, stateConstructor) -> {bytecode?, errors?}:
\* exactly one of bytecode or errors is present.
reduceScript(resolvedScript, vm, createState) ==
    CASE resolvedScript.script.reduce = "errors" ->
            [errors |-> <<[error |-> <<"Tried to execute an invalid operation">>,
                           range |-> NodeRange(1)]>>]
      [] resolvedScript.script.reduce = "empty" -> [errors |-> <<>>]
      [] OTHER -> [bytecode |-> ReducedBytecode(resolvedScript)]

(***************************************************************************)
(* compileScriptContents: parse, resolve, reduce one script body.          *)
(***************************************************************************)
\* The result returned when parsing fails.
ParseFailure(parseResult) ==
    [errorType |-> "parse",
     errors |-> <<[error |-> describeExpectedInput(parseResult.expected),
                   range |-> [endColumn |-> parseResult.index.column,
                              endLineNumber |-> parseResult.index.line,
                              startColumn |-> parseResult.index.column,
                              startLineNumber |-> parseResult.index.line]]>>,
     success |-> FALSE]

\* ResolveFailure as a fail-fast bug would have it: only the first error.
ResolveFailureFirstError(resolutionErrors, parseResult, resolvedScript) ==
    [errorType |-> "resolve",
     errors |-> <<resolutionErrors[1]>>,
     parse |-> parseResult.value,
     resolve |-> resolvedScript,
     success |-> FALSE]

\* The result returned when the resolved script carries errors.
ResolveFailure(resolutionErrors, parseResult, resolvedScript) ==
    [errorType |-> "resolve",
     errors |-> resolutionErrors,
     parse |-> parseResult.value,
     resolve |-> resolvedScript,
     success |-> FALSE]

\* ReduceReturn with bytecode: reduction.bytecode spread on both branches.
ReduceReturnKeepsBytecode(reduction, parseResult, resolvedScript) ==
    IF "errors" \notin DOMAIN reduction
    THEN [bytecode |-> reduction.bytecode, success |-> TRUE,
          parse |-> parseResult.value,
          reduce |-> reduction,
          resolve |-> resolvedScript]
    ELSE [bytecode |-> <<>>,
          errorType |-> "reduce", errors |-> reduction.errors,
          success |-> FALSE,
          parse |-> parseResult.value,
          reduce |-> reduction,
          resolve |-> resolvedScript]

\* The result returned after reduction: the success or the reduce failure,
\* spread before the three artifacts.
ReduceReturn(reduction, parseResult, resolvedScript) ==
    IF "errors" \notin DOMAIN reduction
    THEN [bytecode |-> reduction.bytecode, success |-> TRUE,
          parse |-> parseResult.value,
          reduce |-> reduction,
          resolve |-> resolvedScript]
    ELSE [errorType |-> "reduce", errors |-> reduction.errors,
          success |-> FALSE,
          parse |-> parseResult.value,
          reduce |-> reduction,
          resolve |-> resolvedScript]

compileScriptContents(data, environment, script) ==
    LET parseResult == parseScript(script)
        resolver == createIdentifierResolver(
                        [data |-> data, environment |-> environment])
        resolvedScript == resolveScriptSegment(parseResult.value, resolver)
        resolutionErrors == getResolutionErrors(resolvedScript)
        reduction == reduceScript(resolvedScript, environment.vm,
                                  environment.createState)
    IN  IF ~parseResult.status
        THEN ParseFailure(parseResult)
        ELSE IF Len(resolutionErrors) # 0
        THEN ResolveFailure(resolutionErrors, parseResult, resolvedScript)
        ELSE ReduceReturn(reduction, parseResult, resolvedScript)

(***************************************************************************)
(* compileScriptRaw: look the script up, refuse a circular dependency,     *)
(* extend the ancestry chain and compile the script's contents.            *)
(***************************************************************************)
\* IsCircular comparing with the calling script only.
IsCircularParentOnly(environment, scriptId) ==
    /\ "sourceScriptIds" \in DOMAIN environment
    /\ environment.sourceScriptIds[Len(environment.sourceScriptIds)] = scriptId

\* environment.sourceScriptIds?.includes(scriptId) === true
IsCircular(environment, scriptId) ==
    /\ "sourceScriptIds" \in DOMAIN environment
    /\ Includes(environment.sourceScriptIds, scriptId)

\* ExtendedSourceScriptIds dropping the caller's chain.
ExtendedSourceScriptIdsRestarts(environment, scriptId) == <<scriptId>>

\* The ancestry chain handed to the script's contents.
ExtendedSourceScriptIds(environment, scriptId) ==
    IF "sourceScriptIds" \notin DOMAIN environment
    THEN <<scriptId>>
    ELSE Append(environment.sourceScriptIds, scriptId)

compileScriptRaw(data, environment, scriptId) ==
    IF scriptId \notin DOMAIN environment.scripts
    THEN [errorType |-> "parse",
          errors |-> <<[error |-> <<"No script with an ID of", scriptId,
                                    "was provided in the compilation environment.">>,
                        range |-> emptyRange]>>,
          success |-> FALSE]
    ELSE IF IsCircular(environment, scriptId)
    THEN [errorType |-> "parse",
          errors |-> <<[error |-> <<"A circular dependency was encountered: script",
                                    scriptId,
                                    "relies on itself to be generated. (Source scripts:">>
                                  \o Join(environment.sourceScriptIds, "->")
                                  \o <<")">>,
                        range |-> emptyRange]>>,
          success |-> FALSE]
    ELSE compileScriptContents(
             data,
             With(environment, "sourceScriptIds",
                  ExtendedSourceScriptIds(environment, scriptId)),
             environment.scripts[scriptId])

(***************************************************************************)
(* The P2SH templates.  createCompilerCommonSynchronous makes a compiler   *)
(* whose environment is the given configuration; its generateBytecode      *)
(* compiles the named script of that environment and keeps, of the         *)
(* result, the bytecode or the errors.                                     *)
(***************************************************************************)
createCompilerCommonSynchronous(configuration) ==
    With(With(configuration, "createState", "createState"), "nesting", 0)

generateBytecode(compiler, scriptId, data) ==
    LET compiled == compileScriptRaw(data, compiler, scriptId)
    IN  IF compiled.success
        THEN [bytecode |-> compiled.bytecode, success |-> TRUE]
        ELSE [errorType |-> compiled.errorType, errors |-> compiled.errors,
              success |-> FALSE]

\* The template's source text, which the collaborators treat as p2shOutcome
\* says.
P2shTemplate(kind) == TemplateText(kind, p2shOutcome)

compileScriptP2shLocking(lockingBytecode, vm) ==
    LET compiler == createCompilerCommonSynchronous(
            [scripts |-> [p2shLocking |-> P2shTemplate("p2shLocking")],
             variables |-> [lockingBytecode |-> [type |-> "AddressData"]],
             vm |-> vm])
    IN  generateBytecode(compiler, "p2shLocking",
                         [bytecode |-> [lockingBytecode |-> lockingBytecode]])

compileScriptP2shUnlocking(lockingBytecode, unlockingBytecode) ==
    LET compiler == createCompilerCommonSynchronous(
            [scripts |-> [p2shUnlocking |-> P2shTemplate("p2shUnlocking")],
             variables |-> [lockingBytecode |-> [type |-> "AddressData"],
                            unlockingBytecode |-> [type |-> "AddressData"]]])
    IN  generateBytecode(compiler, "p2shUnlocking",
                         [bytecode |-> [lockingBytecode |-> lockingBytecode,
                                        unlockingBytecode |-> unlockingBytecode]])

(***************************************************************************)
(* compileScript, block by block.                                          *)
(***************************************************************************)
lockTimeTypeBecomesTimestamp == 500000000

\* data.operationData?.locktime !== undefined
HasLocktime(data) ==
    /\ "operationData" \in DOMAIN data
    /\ "locktime" \in DOMAIN data.operationData

\* HeightMismatch with > for >=.
HeightMismatchStrict(scriptId, data, environment) ==
    /\ scriptId \in DOMAIN environment.unlockingScriptTimeLockTypes
    /\ environment.unlockingScriptTimeLockTypes[scriptId] = "height"
    /\ data.operationData.locktime > lockTimeTypeBecomesTimestamp

\* The script requires a height and the locktime is a timestamp.
HeightMismatch(scriptId, data, environment) ==
    /\ scriptId \in DOMAIN environment.unlockingScriptTimeLockTypes
    /\ environment.unlockingScriptTimeLockTypes[scriptId] = "height"
    /\ data.operationData.locktime >= lockTimeTypeBecomesTimestamp

\* TimestampMismatch with the comparison turned round.
TimestampMismatchInverted(scriptId, data, environment) ==
    /\ scriptId \in DOMAIN environment.unlockingScriptTimeLockTypes
    /\ environment.unlockingScriptTimeLockTypes[scriptId] = "timestamp"
    /\ data.operationData.locktime > lockTimeTypeBecomesTimestamp

\* The script requires a timestamp and the locktime is a height.
TimestampMismatch(scriptId, data, environment) ==
    /\ scriptId \in DOMAIN environment.unlockingScriptTimeLockTypes
    /\ environment.unlockingScriptTimeLockTypes[scriptId] = "timestamp"
    /\ data.operationData.locktime < lockTimeTypeBecomesTimestamp

\* The locktime check: the failure it returns, if any (a sequence of zero
\* or one result).
LocktimeFailure(scriptId, data, environment) ==
    IF HasLocktime(data)
    THEN IF HeightMismatch(scriptId, data, environment)
         THEN <<[errorType |-> "parse",
                 errors |-> <<[error |-> <<"The script", scriptId,
                                 "requires a height-based locktime (less than 500,000,000), but this transaction uses a timestamp-based locktime (",
                                 ToString(data.operationData.locktime), ").">>,
                               range |-> emptyRange]>>,
                 success |-> FALSE]>>
         ELSE IF TimestampMismatch(scriptId, data, environment)
         THEN <<[errorType |-> "parse",
                 errors |-> <<[error |-> <<"The script", scriptId,
                                 "requires a timestamp-based locktime (greater than or equal to 500,000,000), but this transaction uses a height-based locktime (",
                                 ToString(data.operationData.locktime), ").">>,
                               range |-> emptyRange]>>,
                 success |-> FALSE]>>
         ELSE <<>>
    ELSE <<>>

\* unlocks !== undefined
HasUnlocks(scriptId, environment) ==
    scriptId \in DOMAIN environment.unlockingScripts

isP2shUnlockingScript(scriptId, environment) ==
    /\ HasUnlocks(scriptId, environment)
    /\ environment.unlockingScripts[scriptId]
          \in DOMAIN environment.lockingScriptTypes
    /\ environment.lockingScriptTypes[environment.unlockingScripts[scriptId]]
          = "p2sh"

isP2shLockingScript(scriptId, environment) ==
    /\ scriptId \in DOMAIN environment.lockingScriptTypes
    /\ environment.lockingScriptTypes[scriptId] = "p2sh"

\* P2shLockingReturn falling back to the raw result when the template fails.
P2shLockingReturnFallsBack(raw, transformed) ==
    IF ~transformed.success
    THEN raw
    ELSE With(With(raw, "bytecode", transformed.bytecode),
              "transformed", "p2sh-locking")

\* What compileScript returns once the P2SH locking template is compiled.
P2shLockingReturn(raw, transformed) ==
    IF ~transformed.success
    THEN transformed
    ELSE With(With(raw, "bytecode", transformed.bytecode),
              "transformed", "p2sh-locking")

\* P2shUnlockingReturn spreading the locking script's result for the raw one.
P2shUnlockingReturnSpreadsLocking(raw, locking, transformed) ==
    IF ~transformed.success
    THEN locking
    ELSE With(With(locking, "bytecode", transformed.bytecode),
              "transformed", "p2sh-unlocking")

\* What compileScript returns once the P2SH unlocking template is compiled.
P2shUnlockingReturn(raw, locking, transformed) ==
    IF ~transformed.success
    THEN locking
    ELSE With(With(raw, "bytecode", transformed.bytecode),
              "transformed", "p2sh-unlocking")

(***************************************************************************)
(* One call compileScript(callScriptId, callData, Environment).  The       *)
(* arguments are fixed by the caller before the call and no step writes    *)
(* them.  The model draws each part of the environment no later than the   *)
(* step that first reads it, and only the entries the call reads: the      *)
(* time-lock type of the requested script with the call, the Script Source *)
(* Table when the script is looked up, the script types and the pairing    *)
(* when the result is classified, the collaborators' answer for a P2SH     *)
(* template when the template is about to be compiled.  An entry not       *)
(* drawn is an entry the map does not have.                                *)
(***************************************************************************)
PartialMaps(keys, values) == UNION {[D -> values] : D \in SUBSET keys}

Tables == PartialMaps(ScriptIds, ScriptTexts)

DataSet ==
    {[bytecode |-> <<>>],
     [bytecode |-> <<>>, operationData |-> [sequenceNumber |-> 0]]}
    \cup {[bytecode |-> <<>>, operationData |-> [locktime |-> n]] :
             n \in LockTimes}

\* A result variable before the step that sets it.
NotRun == [pending |-> TRUE]

EnvironmentOf(table, lockingTypes, unlocking, timeLockTypes) ==
    [scripts |-> table,
     lockingScriptTypes |-> lockingTypes,
     unlockingScripts |-> unlocking,
     unlockingScriptTimeLockTypes |-> timeLockTypes,
     vm |-> "vm",
     createState |-> "createState",
     nesting |-> 0]

\* The environment argument, as far as it is drawn.
Environment ==
    EnvironmentOf(scripts, lockingScriptTypes, unlockingScripts,
                  unlockingScriptTimeLockTypes)

Init ==
    /\ pc = "locktime"
    /\ callScriptId \in ScriptIds
    /\ callData \in DataSet
    /\ unlockingScriptTimeLockTypes
          \in PartialMaps({callScriptId}, {"height", "timestamp"})
    /\ scripts = <<>>
    /\ lockingScriptTypes = <<>>
    /\ unlockingScripts = <<>>
    /\ p2shOutcome = "bytecode"
    /\ rawResult = NotRun
    /\ lockingBytecodeResult = NotRun
    /\ transformedResult = NotRun
    /\ result = NotRun

\* The locktime check fails: compileScript returns its error.
LocktimeReject ==
    /\ pc = "locktime"
    /\ LocktimeFailure(callScriptId, callData, Environment) # <<>>
    /\ result' = LocktimeFailure(callScriptId, callData, Environment)[1]
    /\ pc' = "done"
    /\ UNCHANGED <<callScriptId, callData, scripts, lockingScriptTypes,
                   unlockingScripts, unlockingScriptTimeLockTypes, p2shOutcome,
                   rawResult, lockingBytecodeResult, transformedResult>>

\* The locktime check passes: compileScript goes on to compileScriptRaw.
LocktimePass ==
    /\ pc = "locktime"
    /\ LocktimeFailure(callScriptId, callData, Environment) = <<>>
    /\ pc' = "raw"
    /\ UNCHANGED <<callScriptId, callData, scripts, lockingScriptTypes,
                   unlockingScripts, unlockingScriptTimeLockTypes, p2shOutcome,
                   rawResult, lockingBytecodeResult, transformedResult, result>>

\* rawResult = compileScriptRaw(...); a failure is returned as it is.
CompileRaw ==
    /\ pc = "raw"
    /\ \E table \in Tables :
          LET environment == EnvironmentOf(table, lockingScriptTypes,
                                 unlockingScripts, unlockingScriptTimeLockTypes)
              raw == compileScriptRaw(callData, environment, callScriptId)
          IN  /\ scripts' = table
              /\ rawResult' = raw
              /\ IF ~raw.success
                 THEN result' = raw /\ pc' = "done"
                 ELSE result' = result /\ pc' = "classify"
    /\ UNCHANGED <<callScriptId, callData, lockingScriptTypes, unlockingScripts,
                   unlockingScriptTimeLockTypes, p2shOutcome,
                   lockingBytecodeResult, transformedResult>>

\* The script's classification decides which transformation follows; with
\* none, the raw result is returned.  The entries drawn are those of the
\* requested script and, if it unlocks another script, that script's type.
Classify ==
    /\ pc = "classify"
    /\ \E ownType \in PartialMaps({callScriptId}, {"p2sh", "standard"}),
          unlocking \in PartialMaps({callScriptId}, ScriptIds) :
          \E pairedType \in PartialMaps(
                 {unlocking[id] : id \in DOMAIN unlocking} \ {callScriptId},
                 {"p2sh", "standard"}) :
             LET lockingTypes == ownType @@ pairedType
                 environment == EnvironmentOf(scripts, lockingTypes, unlocking,
                                    unlockingScriptTimeLockTypes)
             IN  /\ lockingScriptTypes' = lockingTypes
                 /\ unlockingScripts' = unlocking
                 /\ IF isP2shLockingScript(callScriptId, environment)
                    THEN /\ result' = result
                         /\ pc' = "p2shLocking"
                         /\ p2shOutcome' \in P2shOutcomes
                    ELSE IF isP2shUnlockingScript(callScriptId, environment)
                    THEN /\ result' = result
                         /\ pc' = "p2shUnlocking"
                         /\ p2shOutcome' = p2shOutcome
                    ELSE /\ result' = rawResult
                         /\ pc' = "done"
                         /\ p2shOutcome' = p2shOutcome
    /\ UNCHANGED <<callScriptId, callData, scripts,
                   unlockingScriptTimeLockTypes, rawResult,
                   lockingBytecodeResult, transformedResult>>

\* The P2SH locking template is compiled over the raw bytecode.
P2shLocking ==
    /\ pc = "p2shLocking"
    /\ LET transformed == compileScriptP2shLocking(rawResult.bytecode,
                                                   Environment.vm)
       IN  /\ transformedResult' = transformed
           /\ result' = P2shLockingReturn(rawResult, transformed)
    /\ pc' = "done"
    /\ UNCHANGED <<callScriptId, callData, scripts, lockingScriptTypes,
                   unlockingScripts, unlockingScriptTimeLockTypes, p2shOutcome,
                   rawResult, lockingBytecodeResult>>

\* The paired locking script is compiled through compileScriptRaw; a
\* failure is returned as it is.
P2shUnlockingRecompile ==
    /\ pc = "p2shUnlocking"
    /\ LET locking == compileScriptRaw(callData, Environment,
                                       unlockingScripts[callScriptId])
       IN  /\ lockingBytecodeResult' = locking
           /\ IF ~locking.success
              THEN /\ result' = locking
                   /\ pc' = "done"
                   /\ p2shOutcome' = p2shOutcome
              ELSE /\ result' = result
                   /\ pc' = "p2shUnlockingTemplate"
                   /\ p2shOutcome' \in P2shOutcomes
    /\ UNCHANGED <<callScriptId, callData, scripts, lockingScriptTypes,
                   unlockingScripts, unlockingScriptTimeLockTypes,
                   rawResult, transformedResult>>

\* The P2SH unlocking template is compiled over both bytecodes.
P2shUnlockingTemplate ==
    /\ pc = "p2shUnlockingTemplate"
    /\ LET transformed == compileScriptP2shUnlocking(
                              lockingBytecodeResult.bytecode,
                              rawResult.bytecode)
       IN  /\ transformedResult' = transformed
           /\ result' = P2shUnlockingReturn(rawResult, lockingBytecodeResult,
                                            transformed)
    /\ pc' = "done"
    /\ UNCHANGED <<callScriptId, callData, scripts, lockingScriptTypes,
                   unlockingScripts, unlockingScriptTimeLockTypes, p2shOutcome,
                   rawResult, lockingBytecodeResult>>

Next ==
    \/ LocktimeReject
    \/ LocktimePass
    \/ CompileRaw
    \/ Classify
    \/ P2shLocking
    \/ P2shUnlockingRecompile
    \/ P2shUnlockingTemplate

Spec == Init /\ [][Next]_vars

(***************************************************************************)
(* What the properties read of a state.                                    *)
(***************************************************************************)
Ran(r) == r # NotRun

\* The nodes of a result's resolved tree that reference a script.
ScriptNodes(r) ==
    IF "resolve" \in DOMAIN r
    THEN {r.resolve.nodes[i] : i \in {j \in 1..Len(r.resolve.nodes) :
                                         r.resolve.nodes[j].type = "script"}}
    ELSE {}

\* A result and the results of every compilation nested in it.
RECURSIVE AllResults(_)
AllResults(r) == {r} \cup UNION {AllResults(n.result) : n \in ScriptNodes(r)}

\* The results compileScriptRaw and compileScript have returned so far.
Returned ==
    UNION {AllResults(r) :
             r \in {x \in {rawResult, lockingBytecodeResult, result} : Ran(x)}}

NoRepeats(s) == \A i, j \in 1..Len(s) : s[i] = s[j] => i = j

\* chain[1] -> chain[2] -> ... as the pieces of a string.
ArrowJoined(chain) ==
    [i \in 1..(2 * Len(chain) - 1) |->
        IF i % 2 = 1 THEN chain[(i + 1) \div 2] ELSE "->"]

ContainsSeq(s, t) ==
    \E k \in 0..(Len(s) - Len(t)) : SubSeq(s, k + 1, k + Len(t)) = t

ZeroRange(range) ==
    /\ range.startLineNumber = 0 /\ range.startColumn = 0
    /\ range.endLineNumber = 0 /\ range.endColumn = 0

\* The identifiers the text of `id` references, if the table has it.
RefsOf(table, id) ==
    IF id \in DOMAIN table
    THEN {x \in DOMAIN table : Includes(table[id].refs, x)}
    ELSE {}

RECURSIVE ReachableFrom(_, _, _)
ReachableFrom(table, ids, n) ==
    IF n = 0 THEN ids
    ELSE ReachableFrom(table, ids \cup UNION {RefsOf(table, x) : x \in ids},
                       n - 1)

\* The source of `id` references itself, directly or through other scripts.
DependsOnItself(table, id) ==
    id \in ReachableFrom(table, RefsOf(table, id), Cardinality(DOMAIN table))

\* The locktime check's condition, read off the arguments.
LocktimeMismatch ==
    /\ "operationData" \in DOMAIN callData
    /\ "locktime" \in DOMAIN callData.operationData
    /\ callScriptId \in DOMAIN unlockingScriptTimeLockTypes
    /\ \/ /\ unlockingScriptTimeLockTypes[callScriptId] = "height"
          /\ callData.operationData.locktime >= 500000000
       \/ /\ unlockingScriptTimeLockTypes[callScriptId] = "timestamp"
          /\ callData.operationData.locktime < 500000000

\* compileScript has returned from the locktime check.
LocktimeRejected == pc = "done" /\ ~Ran(rawResult)

IsLockingP2sh(id) ==
    id \in DOMAIN lockingScriptTypes /\ lockingScriptTypes[id] = "p2sh"

UnlocksP2sh(id) ==
    id \in DOMAIN unlockingScripts /\ IsLockingP2sh(unlockingScripts[id])

(***************************************************************************)
(* The claims.                                                             *)
(***************************************************************************)

\* C1: for an unlocking script of a p2sh locking script whose own raw
\* compilation succeeded, when the recompilation of the locking script or
\* the compilation of the unlocking template fails, compileScript returns
\* exactly the result of the compilation that failed, never a success.
C1_UnlockingFailureReturned ==
    (pc = "done" /\ Ran(lockingBytecodeResult)) =>
        /\ ~lockingBytecodeResult.success => result = lockingBytecodeResult
        /\ (lockingBytecodeResult.success /\ ~transformedResult.success) =>
              (result = transformedResult /\ ~result.success)

\* C2: every result returned has success = TRUE exactly when it has a
\* bytecode field, and a failure has an errorType of parse, resolve or reduce.
C2_SuccessIffBytecode ==
    \A r \in Returned :
        /\ r.success <=> "bytecode" \in DOMAIN r
        /\ ~r.success => r.errorType \in {"parse", "resolve", "reduce"}

C2_Witness ==
    /\ pc = "done"
    /\ \E r \in Returned : ~r.success /\ r.errorType = "reduce"
    /\ \E r \in Returned : r.success

\* The error compileScriptRaw returns for `id` found in the ancestry `chain`:
\* parse-kind, one zero-range error, no artifact of the stage pipeline, a
\* message naming id and holding the chain in call order, joined by arrows.
IsCircularError(r, id, chain) ==
    /\ ~r.success
    /\ r.errorType = "parse"
    /\ DOMAIN r = {"errorType", "errors", "success"}
    /\ Len(r.errors) = 1
    /\ ZeroRange(r.errors[1].range)
    /\ Includes(r.errors[1].error, id)
    /\ ContainsSeq(r.errors[1].error, ArrowJoined(chain))

\* r is the result of compileScriptRaw for `id` under the ancestry `path`:
\* every nested call for an identifier already in the ancestry returned the
\* circular-dependency error.
RECURSIVE CyclesRefused(_, _, _)
CyclesRefused(r, id, path) ==
    LET chain == Append(path, id)
    IN  \A n \in ScriptNodes(r) :
            IF Includes(chain, n.value)
            THEN IsCircularError(n.result, n.value, chain)
            ELSE CyclesRefused(n.result, n.value, chain)

\* Some nested call for an identifier already in the ancestry was made and
\* returned the circular-dependency error.
RECURSIVE HasRefusedCycle(_, _, _)
HasRefusedCycle(r, id, path) ==
    LET chain == Append(path, id)
    IN  \E n \in ScriptNodes(r) :
            IF Includes(chain, n.value)
            THEN IsCircularError(n.result, n.value, chain)
            ELSE HasRefusedCycle(n.result, n.value, chain)

\* C3: compiling, with no ancestry chain, a script whose source depends on
\* itself fails, and the nested compileScriptRaw call for the repeated
\* identifier returns the circular-dependency error without running the
\* stage pipeline.
C3_CircularDependencyFails ==
    Ran(rawResult) =>
        /\ CyclesRefused(rawResult, callScriptId, <<>>)
        /\ DependsOnItself(scripts, callScriptId) =>
              /\ ~rawResult.success
              /\ HasRefusedCycle(rawResult, callScriptId, <<>>)
        /\ (pc = "done" /\ DependsOnItself(scripts, callScriptId)) =>
              ~result.success

\* A transitive cycle: a references b, b references a.
C3_Witness ==
    /\ pc = "done"
    /\ callScriptId = "a"
    /\ DOMAIN scripts = {"a", "b"}
    /\ scripts["a"].refs = <<"b">>
    /\ scripts["b"].refs = <<"a">>
    /\ result.errorType = "resolve"

\* C4: the locktime check rejects exactly when a locktime is supplied and
\* the script is declared height with locktime >= 500000000 or declared
\* timestamp with locktime < 500000000.
C4_LocktimeGateExact ==
    pc # "locktime" => (LocktimeRejected <=> LocktimeMismatch)

\* A height script at the boundary value is rejected.
C4_Witness ==
    /\ LocktimeRejected
    /\ callScriptId \in DOMAIN unlockingScriptTimeLockTypes
    /\ unlockingScriptTimeLockTypes[callScriptId] = "height"
    /\ callData.operationData.locktime = 500000000

\* C5: when the locktime check fails, compileScript returns the parse-kind,
\* zero-range locktime error and nothing else has run: the Script Source
\* Table was not read and no compilation was started.
C5_LocktimeReportedFirst ==
    (pc # "locktime" /\ LocktimeMismatch) =>
        /\ pc = "done"
        /\ ~Ran(rawResult)
        /\ ~Ran(lockingBytecodeResult)
        /\ ~Ran(transformedResult)
        /\ scripts = <<>>
        /\ ~result.success
        /\ result.errorType = "parse"
        /\ DOMAIN result = {"errorType", "errors", "success"}
        /\ Len(result.errors) = 1
        /\ ZeroRange(result.errors[1].range)
        /\ Includes(result.errors[1].error, callScriptId)
        /\ Includes(result.errors[1].error,
                    ToString(callData.operationData.locktime))

\* A timestamp script with a height locktime is rejected at once.
C5_Witness ==
    /\ pc = "done"
    /\ LocktimeMismatch
    /\ unlockingScriptTimeLockTypes[callScriptId] = "timestamp"
    /\ callData.operationData.locktime = 499999999
    /\ ~Ran(rawResult)

\* The number of nodes of a resolved tree that carry an error: identifiers
\* left unresolved and references to scripts that did not compile.
FailingNodes(r) ==
    Cardinality({i \in 1..Len(r.resolve.nodes) :
                    \/ r.resolve.nodes[i].type = "error"
                    \/ /\ r.resolve.nodes[i].type = "script"
                       /\ ~r.resolve.nodes[i].result.success})

\* r is what the stage pipeline returned for `text`: the kind of the first
\* failing stage, and the artifacts of exactly the stages that ran.
StageShape(r, text) ==
    IF ~text.parses
    THEN /\ ~r.success /\ r.errorType = "parse"
         /\ DOMAIN r = {"errorType", "errors", "success"}
    ELSE /\ {"parse", "resolve"} \subseteq DOMAIN r
         /\ r.parse = text
         /\ r.resolve.script = text
         /\ IF FailingNodes(r) > 0
            THEN /\ ~r.success /\ r.errorType = "resolve"
                 /\ Len(r.errors) = FailingNodes(r)
                 /\ DOMAIN r = {"errorType", "errors", "parse", "resolve",
                                "success"}
            ELSE IF text.reduce # "bytecode"
            THEN /\ ~r.success /\ r.errorType = "reduce"
                 /\ DOMAIN r = {"errorType", "errors", "parse", "reduce",
                                "resolve", "success"}
                 /\ "errors" \in DOMAIN r.reduce
            ELSE /\ r.success
                 /\ DOMAIN r = {"bytecode", "parse", "reduce", "resolve",
                                "success"}
                 /\ r.bytecode = r.reduce.bytecode

\* r is the result of compileScriptRaw for `id` under the ancestry `path`:
\* wherever the stage pipeline ran, in r or nested in it, its result has
\* the shape of its first failing stage.
RECURSIVE StagesShortCircuit(_, _, _)
StagesShortCircuit(r, id, path) ==
    \/ id \notin DOMAIN scripts
    \/ Includes(path, id)
    \/ /\ StageShape(r, scripts[id])
       /\ \A n \in ScriptNodes(r) :
             StagesShortCircuit(n.result, n.value, Append(path, id))

\* C6: the stage pipeline stops at the first failing stage and its result
\* carries exactly the artifacts of the stages that ran: none for a parse
\* failure; parse and resolve, with every resolution error, for a resolve
\* failure; all three and no bytecode for a reduce failure; all three and
\* the bytecode for a success.
C6_StagesShortCircuit ==
    /\ Ran(rawResult) => StagesShortCircuit(rawResult, callScriptId, <<>>)
    /\ Ran(lockingBytecodeResult) =>
          StagesShortCircuit(lockingBytecodeResult,
                             unlockingScripts[callScriptId], <<>>)

\* A resolve failure that collected two errors.
C6_Witness ==
    /\ Ran(rawResult)
    /\ ~rawResult.success
    /\ rawResult.errorType = "resolve"
    /\ Len(rawResult.errors) = 2
    /\ \E n \in ScriptNodes(rawResult) :
          ~n.result.success /\ n.result.errorType = "reduce"

\* C7: every failure result carries a non-empty list of errors.
C7_FailureHasErrors ==
    \A r \in Returned : ~r.success => Len(r.errors) > 0

\* C8: for a script typed p2sh as a locking script whose raw compilation
\* succeeded, compileScript returns, when the locking template compiles,
\* the raw result with only bytecode replaced by the template's bytecode
\* (OP_HASH160, a push of the hash of the raw bytecode, OP_EQUAL) and
\* transformed = "p2sh-locking" added; when the template fails, the
\* template's failure.
C8_P2shLockingWrap ==
    (pc = "done" /\ Ran(rawResult) /\ rawResult.success
       /\ IsLockingP2sh(callScriptId)) =>
        /\ Ran(transformedResult)
        /\ ~Ran(lockingBytecodeResult)
        /\ IF transformedResult.success
           THEN /\ DOMAIN result = DOMAIN rawResult \cup {"transformed"}
                /\ \A f \in DOMAIN rawResult \ {"bytecode"} :
                      result[f] = rawResult[f]
                /\ result.transformed = "p2sh-locking"
                /\ result.bytecode = transformedResult.bytecode
                /\ result.bytecode =
                      <<169>> \o PushData(Hash160(rawResult.bytecode)) \o <<135>>
           ELSE /\ result = transformedResult
                /\ ~result.success

C8_Witness ==
    /\ pc = "done"
    /\ IsLockingP2sh(callScriptId)
    /\ "transformed" \in DOMAIN result
    /\ result.transformed = "p2sh-locking"
    /\ Len(rawResult.bytecode) = 3

\* The bytecode the script `id` of `table` compiles to when it and the
\* scripts it references compile.
RECURSIVE RawBytecode(_, _)
RawBytecode(table, id) ==
    table[id].code
    \o Flatten([i \in 1..Len(table[id].refs) |->
                  RawBytecode(table, table[id].refs[i])])

\* What the P2SH unlocking assembly returns once the locking script and the
\* template compiled: the raw unlocking result with only bytecode replaced
\* by U followed by a push of L, L the unwrapped bytecode of the locking
\* script, and transformed = "p2sh-unlocking" added.
P2shUnlockingAssembled ==
    /\ Ran(lockingBytecodeResult)
    /\ "transformed" \notin DOMAIN lockingBytecodeResult
    /\ (lockingBytecodeResult.success /\ Ran(transformedResult)
          /\ transformedResult.success) =>
        /\ lockingBytecodeResult.bytecode =
              RawBytecode(scripts, unlockingScripts[callScriptId])
        /\ DOMAIN result = DOMAIN rawResult \cup {"transformed"}
        /\ \A f \in DOMAIN rawResult \ {"bytecode"} : result[f] = rawResult[f]
        /\ result.transformed = "p2sh-unlocking"
        /\ result.bytecode =
              rawResult.bytecode
              \o <<Len(lockingBytecodeResult.bytecode)>>
              \o lockingBytecodeResult.bytecode

\* C9 as stated: for every unlocking script paired with a p2sh locking
\* script whose raw compilation succeeded, the locking script is recompiled
\* unwrapped and the assembled result is returned.
C9_AsStated ==
    (pc = "done" /\ Ran(rawResult) /\ rawResult.success
       /\ UnlocksP2sh(callScriptId)) => P2shUnlockingAssembled

\* C9, amended: the same for an unlocking script that is not itself typed
\* p2sh as a locking script.
C9_P2shUnlockingAssembly ==
    (pc = "done" /\ Ran(rawResult) /\ rawResult.success
       /\ UnlocksP2sh(callScriptId) /\ ~IsLockingP2sh(callScriptId)) =>
        P2shUnlockingAssembled

C9_Witness ==
    /\ pc = "done"
    /\ UnlocksP2sh(callScriptId)
    /\ ~IsLockingP2sh(callScriptId)
    /\ "transformed" \in DOMAIN result
    /\ result.transformed = "p2sh-unlocking"
    /\ rawResult.bytecode # lockingBytecodeResult.bytecode
    /\ Len(lockingBytecodeResult.bytecode) = 2

\* r is the result of compileScriptRaw for `id` under the ancestry `path`:
\* the chain handed to the script's contents is the caller's chain with id
\* appended, holds no identifier twice and only identifiers of the table,
\* is no longer than the table has scripts, and no nested call was left
\* unfollowed; the same for every call nested in it, each under the chain
\* of its own caller.
RECURSIVE ChainsExtendByOne(_, _, _)
ChainsExtendByOne(r, id, path) ==
    /\ r # DepthExceeded
    /\ "resolve" \in DOMAIN r =>
          /\ r.resolve.sourceScriptIds = Append(path, id)
          /\ NoRepeats(r.resolve.sourceScriptIds)
          /\ \A i \in 1..Len(r.resolve.sourceScriptIds) :
                r.resolve.sourceScriptIds[i] \in DOMAIN scripts
          /\ Len(r.resolve.sourceScriptIds) <= Cardinality(DOMAIN scripts)
          /\ \A n \in ScriptNodes(r) :
                ChainsExtendByOne(n.result, n.value, Append(path, id))

\* C10: in a call tree started with no ancestry chain, every descent
\* through compileScriptRaw extends the chain by exactly its identifier and
\* leaves the caller's chain as it was; the chain never repeats an
\* identifier and names only scripts of the table, so the nesting never
\* exceeds the number of scripts and every call returns.
C10_AncestryBoundsRecursion ==
    /\ Ran(rawResult) => ChainsExtendByOne(rawResult, callScriptId, <<>>)
    /\ Ran(lockingBytecodeResult) =>
          ChainsExtendByOne(lockingBytecodeResult,
                            unlockingScripts[callScriptId], <<>>)

\* A descent two scripts deep.
C10_Witness ==
    /\ Ran(rawResult)
    /\ \E r \in AllResults(rawResult) :
          /\ "resolve" \in DOMAIN r
          /\ Len(r.resolve.sourceScriptIds) = 2
          /\ ScriptNodes(r) # {}

====
